---- MODULE Spec2Model ----
(***************************************************************************)
(* Model of api/index.py: the configurable assessment pipeline.            *)
(*   - build_assessment_prompt : schema and user metadata -> prompt text   *)
(*   - parse_json_response     : raw model text -> parsed value / fallback *)
(*   - build_header_row, append_to_sheet : schema and result -> sheet row  *)
(*   - assess, submit          : the two request handlers                  *)
(* Python dicts are sequences of <<key, value>> pairs (insertion order is  *)
(* iteration order), Python strings are TLA+ strings where only whole      *)
(* values matter and sequences of one-character strings where the code     *)
(* scans them character by character (parse_json_response).                *)
(***************************************************************************)
EXTENDS Integers, Sequences, FiniteSets, TLC

VARIABLES
    config,     \* the parsed config/questions.json as load_config returns it
    sheet,      \* the worksheet: a sequence of rows, sheet[1] is row 1
    layouts,    \* history: for every data row of the sheet, the header computed when it was projected
    edits,      \* number of schema edits made so far (bounded by MaxEdits)
    op,         \* which operation acted last
    request,    \* the inputs of the last request (payload, environment, collaborator outcomes)
    response,   \* the outcome of the last request
    calls,      \* the external calls the last request made, in order
    hdr,        \* append_to_sheet's local headers in the last request
    row,        \* append_to_sheet's local row in the last request
    text,       \* parse_json_response's argument
    result,     \* parse_json_response's return value
    prompt      \* build_assessment_prompt's return value, as a sequence of lines

vars == <<config, sheet, layouts, edits, op, request, response, calls, hdr, row,
          text, result, prompt>>

(***************************************************************************)
(* Bounds.                                                                 *)
(***************************************************************************)
MaxFields == 2      \* longest metadata / AI-inferred / category list of a schema
MaxRows == 2        \* most data rows appended to the sheet
MaxEdits == 2       \* most schema edits in one run
MaxTextLen == 3     \* longest text among the exhaustively enumerated raw texts

(***************************************************************************)
(* Python helpers.                                                         *)
(***************************************************************************)
PyNone == "<None>"

Range(s) == { s[i] : i \in 1..Len(s) }

\* d.get(k, dflt) on a dict kept as a sequence of <<key, value>> pairs
Get(d, k, dflt) ==
    IF \E i \in 1..Len(d) : d[i][1] = k
    THEN d[CHOOSE i \in 1..Len(d) : d[i][1] = k][2]
    ELSE dflt

\* Python truthiness of a string-or-None value
Truthy(v) == v # "" /\ v # PyNone

\* sep.join(parts)
RECURSIVE Join(_, _)
Join(sep, parts) ==
    IF Len(parts) = 0 THEN ""
    ELSE IF Len(parts) = 1 THEN parts[1]
    ELSE parts[1] \o sep \o Join(sep, Tail(parts))

\* the sequences of at most n distinct elements of pool
SeqsNoDup(pool, n) ==
    { s \in UNION { [1..k -> pool] : k \in 0..n } :
        \A i, j \in 1..Len(s) : i # j => s[i] # s[j] }

(***************************************************************************)
(* Schemas: the values load_config can return.                             *)
(***************************************************************************)
MetadataPool ==
    { [id |-> "building",       label |-> "Which building is the sign in?"],
      [id |-> "building_floor", label |-> "Floor"],
      [id |-> "assessor_name",  label |-> "Your name"] }

AIPool ==
    { [id |-> "sign_type",   label |-> "Sign Type",   options |-> <<"Digital", "Static">>],
      [id |-> "orientation", label |-> "Orientation", options |-> <<"Portrait">>],
      [id |-> "interactive", label |-> "Interactive Display", options |-> <<>>] }

CategoryPool ==
    { [id |-> "contrast",    name |-> "Contrast and Color Blindness", guidance |-> "WCAG 4.5:1"],
      [id |-> "readability", name |-> "Text Readability",             guidance |-> ""] }

RatingOptions == <<"Fully Accessible", "Partially Accessible">>

Schema(m, a, c) ==
    [metadata_fields |-> m, ai_inferred_fields |-> a, categories |-> c,
     overall_rating |-> [options |-> RatingOptions]]

Schemas ==
    { Schema(m, a, c) : m \in SeqsNoDup(MetadataPool, MaxFields),
                        a \in SeqsNoDup(AIPool, MaxFields),
                        c \in SeqsNoDup(CategoryPool, MaxFields) }

(***************************************************************************)
(* build_header_row                                                        *)
(***************************************************************************)
LABEL_OVERRIDES ==
    << <<"assessor_name", "Assessor Name">>,
       <<"assessor_email", "Email">>,
       <<"building", "Building">>,
       <<"screen_location", "Screen Location">>,
       <<"reviewed_on", "Date Reviewed">>,
       <<"floor_owner", "Floor Owner">> >>

MetadataHeaders(cfg) ==
    [i \in 1..Len(cfg.metadata_fields) |->
        Get(LABEL_OVERRIDES, cfg.metadata_fields[i].id, cfg.metadata_fields[i].label)]

AIHeaders(cfg) ==
    [i \in 1..Len(cfg.ai_inferred_fields) |-> cfg.ai_inferred_fields[i].label]

CategoryHeaders(cfg) ==
    [i \in 1..Len(cfg.categories) |-> cfg.categories[i].name]

TrailingHeaders ==
    <<"Accessibility Rating", "AI Additional Comments", "Assessor Comments",
      "Overall Notes", "AI Additional Context">>

\* build_header_row with the human comments column forgotten
build_header_row_NoAssessor(cfg) ==
    <<"Timestamp">> \o MetadataHeaders(cfg) \o AIHeaders(cfg) \o <<"Image Link">>
        \o CategoryHeaders(cfg)
        \o <<"Accessibility Rating", "AI Additional Comments", "Overall Notes",
             "AI Additional Context">>

\* build_header_row with LABEL_OVERRIDES ignored
build_header_row_NoOverrides(cfg) ==
    <<"Timestamp">> \o [i \in 1..Len(cfg.metadata_fields) |-> cfg.metadata_fields[i].label]
        \o AIHeaders(cfg) \o <<"Image Link">> \o CategoryHeaders(cfg) \o TrailingHeaders

build_header_row(cfg) ==
    <<"Timestamp">> \o MetadataHeaders(cfg) \o AIHeaders(cfg) \o <<"Image Link">>
        \o CategoryHeaders(cfg) \o TrailingHeaders

(***************************************************************************)
(* append_to_sheet: the data row                                           *)
(***************************************************************************)
\* the metadata cell with the "Other" substitution left out
MetadataCell_NoOther(metadata, id) == Get(metadata, id, "")

\* lines 376-379: one metadata cell
MetadataCell(metadata, id) ==
    LET value == Get(metadata, id, "")
        other_value == Get(metadata, id \o "_other", "")
    IN  IF value = "Other" /\ Truthy(other_value)
        THEN "Other: " \o other_value
        ELSE value

MetadataCells(cfg, metadata) ==
    [i \in 1..Len(cfg.metadata_fields) |-> MetadataCell(metadata, cfg.metadata_fields[i].id)]

AICells(cfg, inferred_metadata) ==
    [i \in 1..Len(cfg.ai_inferred_fields) |->
        Get(inferred_metadata, cfg.ai_inferred_fields[i].id, "")]

\* the category cells taken in the order the assessments mapping lists them
CategoryCells_DictOrder(cfg, assessments) ==
    [i \in 1..Len(cfg.categories) |->
        IF i <= Len(assessments) THEN assessments[i][2] ELSE ""]

CategoryCells(cfg, assessments) ==
    [i \in 1..Len(cfg.categories) |-> Get(assessments, cfg.categories[i].id, "")]

\* lines 406-409: "k: v" for every truthy entry whose key is no AI-inferred field id
RECURSIVE ExtraPairs(_, _)
ExtraPairs(ai_field_ids, inferred_metadata) ==
    IF Len(inferred_metadata) = 0 THEN <<>>
    ELSE LET k == inferred_metadata[1][1]
             v == inferred_metadata[1][2]
             rest == ExtraPairs(ai_field_ids, Tail(inferred_metadata))
         IN  IF Truthy(v) /\ k \notin ai_field_ids
             THEN <<k \o ": " \o v>> \o rest
             ELSE rest

ExtraInferred(cfg, inferred_metadata) ==
    Join(", ", ExtraPairs({ f.id : f \in Range(cfg.ai_inferred_fields) }, inferred_metadata))

BuildRow(cfg, timestamp, d, image_link) ==
    <<timestamp>> \o MetadataCells(cfg, d.metadata) \o AICells(cfg, d.inferred_metadata)
        \o <<image_link>> \o CategoryCells(cfg, d.assessments)
        \o <<d.accessibility_rating, d.final_comments, d.assessor_comments, d.overall_notes>>
        \o <<ExtraInferred(cfg, d.inferred_metadata)>>

(***************************************************************************)
(* The worksheet (gspread), as append_to_sheet uses it.                    *)
(***************************************************************************)
\* sheet.cell(1, 1).value
SheetCell11(sh) ==
    IF Len(sh) >= 1 /\ Len(sh[1]) >= 1 THEN sh[1][1] ELSE PyNone

\* sheet.update(range_name='A1', values=[values]): writes the cells A1.. of row 1
SheetUpdateA1(sh, values) ==
    IF Len(sh) = 0 THEN <<values>>
    ELSE [sh EXCEPT ![1] = values \o SubSeq(@, Len(values) + 1, Len(@))]

\* sheet.append_row(r)
SheetAppendRow(sh, r) == Append(sh, r)

(***************************************************************************)
(* parse_json_response.  Texts are sequences of one-character strings.     *)
(* The alphabet of the model has no backslash, so a string ends at the     *)
(* next double quote; it has one digit and no t/f/n literals, so the JSON  *)
(* values are objects, strings and numbers.                                *)
(***************************************************************************)
LB == "{"
RB == "}"
DQ == "\""
BT == "<backtick>"         \* the backtick character (the lexer admits none in a string)
NL == "\n"
SP == " "
Whitespace == {SP, NL}      \* what \s and json's whitespace skipping match here
Digits == {"1"}

RawLimit == 500             \* text[:500]

IsFenceAt(t, p) ==
    p >= 1 /\ p + 2 <= Len(t) /\ t[p] = BT /\ t[p + 1] = BT /\ t[p + 2] = BT

\* the positions where the fence pattern of line 276 (re.search, DOTALL) can match
FenceStarts(t) ==
    { p \in 1..Len(t) : IsFenceAt(t, p) /\ \E q \in (p + 3)..Len(t) : IsFenceAt(t, q) }

HasJsonTag(t, p) ==
    p + 6 <= Len(t) /\ SubSeq(t, p + 3, p + 6) = <<"j", "s", "o", "n">>

\* the first position at or after i that holds no whitespace (Len(t) + 1 when there is none)
SkipWs(t, i) ==
    CHOOSE j \in i..(Len(t) + 1) :
        /\ (j <= Len(t) => t[j] \notin Whitespace)
        /\ \A k \in i..(j - 1) : t[k] \in Whitespace

\* fence_match.group(1): leftmost match; (?:json)? and \s* are greedy, (.*?) is lazy and
\* stops at the first fence or newline-then-fence
FenceGroup(t) ==
    LET p == CHOOSE x \in FenceStarts(t) : \A y \in FenceStarts(t) : x <= y
        afterTag == IF HasJsonTag(t, p) THEN p + 7 ELSE p + 3
        c == SkipWs(t, afterTag)
        stops == { e \in c..Len(t) :
                     IsFenceAt(t, e) \/ (t[e] = NL /\ IsFenceAt(t, e + 1)) }
        e == CHOOSE x \in stops : \A y \in stops : x <= y
    IN  SubSeq(t, c, e - 1)

\* parse_json_response with the fence search left out
StripFence_None(t) == t

\* lines 276-278
StripFence(t) == IF FenceStarts(t) # {} THEN FenceGroup(t) ELSE t

\* the loop of lines 284-292 with the slice ending before the closing brace
RECURSIVE ScanBraces_OffByOne(_, _, _, _)
ScanBraces_OffByOne(t, brace_start, i, depth) ==
    IF i > Len(t) THEN t
    ELSE IF t[i] = LB THEN ScanBraces_OffByOne(t, brace_start, i + 1, depth + 1)
    ELSE IF t[i] = RB
         THEN IF depth - 1 = 0
              THEN SubSeq(t, brace_start, i - 1)
              ELSE ScanBraces_OffByOne(t, brace_start, i + 1, depth - 1)
    ELSE ScanBraces_OffByOne(t, brace_start, i + 1, depth)

\* lines 284-292: the loop from brace_start, i the index, depth the counter before t[i]
RECURSIVE ScanBraces(_, _, _, _)
ScanBraces(t, brace_start, i, depth) ==
    IF i > Len(t) THEN t
    ELSE IF t[i] = LB THEN ScanBraces(t, brace_start, i + 1, depth + 1)
    ELSE IF t[i] = RB
         THEN IF depth - 1 = 0
              THEN SubSeq(t, brace_start, i)
              ELSE ScanBraces(t, brace_start, i + 1, depth - 1)
    ELSE ScanBraces(t, brace_start, i + 1, depth)

\* lines 281-292
CutAtBraces(t) ==
    IF \E i \in 1..Len(t) : t[i] = LB
    THEN LET brace_start == CHOOSE i \in 1..Len(t) :
                                t[i] = LB /\ \A k \in 1..(i - 1) : t[k] # LB
         IN  ScanBraces(t, brace_start, brace_start, 0)
    ELSE t

(***************************************************************************)
(* json.loads: JSON values are records [t, s, m]: t the type, s the        *)
(* characters of a string or number, m the members of an object in order.  *)
(***************************************************************************)
JStr(s) == [t |-> "str", s |-> s, m |-> <<>>]
JNum(s) == [t |-> "num", s |-> s, m |-> <<>>]
JObj(m) == [t |-> "obj", s |-> <<>>, m |-> m]

ParseFail == [ok |-> FALSE, v |-> JObj(<<>>), next |-> 0]
ParseOk(v, next) == [ok |-> TRUE, v |-> v, next |-> next]

\* dict[k] = v: a repeated key keeps its place and takes the last value
DictSet(d, k, v) ==
    IF \E i \in 1..Len(d) : d[i][1] = k
    THEN [i \in 1..Len(d) |-> IF d[i][1] = k THEN <<k, v>> ELSE d[i]]
    ELSE Append(d, <<k, v>>)

\* a string starting at the quote t[i]; a raw control character inside is an error (strict)
ParseString(t, i) ==
    IF \E j \in (i + 1)..Len(t) : t[j] = DQ
    THEN LET j == CHOOSE x \in (i + 1)..Len(t) :
                      t[x] = DQ /\ \A k \in (i + 1)..(x - 1) : t[k] # DQ
         IN  IF \E k \in (i + 1)..(j - 1) : t[k] = NL
             THEN ParseFail
             ELSE ParseOk(SubSeq(t, i + 1, j - 1), j + 1)
    ELSE ParseFail

ParseNumber(t, i) ==
    LET j == CHOOSE x \in i..(Len(t) + 1) :
                 /\ (x <= Len(t) => t[x] \notin Digits)
                 /\ \A k \in i..(x - 1) : t[k] \in Digits
    IN  ParseOk(JNum(SubSeq(t, i, j - 1)), j)

RECURSIVE ParseValue(_, _), ParseMembers(_, _, _)
\* the members of an object, i at the quote opening the next key
ParseMembers(t, i, acc) ==
    IF i > Len(t) \/ t[i] # DQ THEN ParseFail
    ELSE LET key == ParseString(t, i)
         IN  IF ~key.ok THEN ParseFail
             ELSE LET c == SkipWs(t, key.next)
                  IN  IF c > Len(t) \/ t[c] # ":" THEN ParseFail
                      ELSE LET val == ParseValue(t, SkipWs(t, c + 1))
                           IN  IF ~val.ok THEN ParseFail
                               ELSE LET e == SkipWs(t, val.next)
                                        acc2 == DictSet(acc, key.v, val.v)
                                    IN  IF e > Len(t) THEN ParseFail
                                        ELSE IF t[e] = RB THEN ParseOk(JObj(acc2), e + 1)
                                        ELSE IF t[e] = "," THEN ParseMembers(t, SkipWs(t, e + 1), acc2)
                                        ELSE ParseFail

ParseValue(t, i) ==
    IF i > Len(t) THEN ParseFail
    ELSE IF t[i] = DQ
         THEN LET s == ParseString(t, i)
              IN  IF s.ok THEN ParseOk(JStr(s.v), s.next) ELSE ParseFail
    ELSE IF t[i] = LB
         THEN LET j == SkipWs(t, i + 1)
              IN  IF j <= Len(t) /\ t[j] = RB THEN ParseOk(JObj(<<>>), j + 1)
                  ELSE ParseMembers(t, j, <<>>)
    ELSE IF t[i] \in Digits THEN ParseNumber(t, i)
    ELSE ParseFail

\* json.loads(t): one value, whitespace around it, nothing else; ok = FALSE is JSONDecodeError
json_loads(t) ==
    LET r == ParseValue(t, SkipWs(t, 1))
    IN  IF r.ok /\ SkipWs(t, r.next) = Len(t) + 1 THEN r ELSE ParseFail

KeyInferredMetadata == <<"inferred_metadata">>
KeyAssessments == <<"assessments">>
KeyOverallNotes == <<"overall_notes">>
DiagPrefix == "Failed to parse AI response. Raw response: "

\* lines 298-302: the fallback structure
Fallback(t) ==
    JObj(<< <<KeyInferredMetadata, JObj(<<>>)>>,
            <<KeyAssessments, JObj(<<>>)>>,
            <<KeyOverallNotes,
              JStr(<<DiagPrefix>> \o SubSeq(t, 1, IF Len(t) < RawLimit THEN Len(t) ELSE RawLimit))>> >>)

parse_json_response(raw) ==
    LET t == CutAtBraces(StripFence(raw))
        r == json_loads(t)
    IN  IF r.ok THEN r.v ELSE Fallback(t)

(***************************************************************************)
(* build_assessment_prompt.  The prompt is the sequence of its lines (the  *)
(* text split at newlines).  The static lines of the template are kept one *)
(* entry per source line, shortened to their opening words; every line     *)
(* built from the schema or the metadata is kept in full.                  *)
(***************************************************************************)
Quoted(opts) == [i \in 1..Len(opts) |-> "\"" \o opts[i] \o "\""]

\* lines 178-183: the text substituted at line 230, as lines
RECURSIVE MetadataLines(_)
MetadataLines(metadata) ==
    IF Len(metadata) = 0 THEN <<>>
    ELSE (IF Truthy(metadata[1][2])
          THEN <<"- " \o metadata[1][1] \o ": " \o metadata[1][2]>>
          ELSE <<>>) \o MetadataLines(Tail(metadata))

MetadataContext(metadata) ==
    IF Len(metadata) > 0
    THEN <<"", "User-provided context about this sign:">> \o MetadataLines(metadata) \o <<"">>
    ELSE <<"">>

\* line 192
InstructionLine(field) ==
    "- **" \o field.id \o "**: " \o field.label \o ". Must be one of: "
        \o Join(", ", Quoted(field.options))

\* line 193
SchemaLine(field) ==
    "    \"" \o field.id \o "\": \"one of: " \o Join(", ", field.options) \o "\","

AIFieldsInstructions(cfg) ==
    [i \in 1..Len(cfg.ai_inferred_fields) |-> InstructionLine(cfg.ai_inferred_fields[i])]

\* the skeleton lines emitted last field first
AIFieldsSchema_Reversed(cfg) ==
    [i \in 1..Len(cfg.ai_inferred_fields) |->
        SchemaLine(cfg.ai_inferred_fields[Len(cfg.ai_inferred_fields) + 1 - i])]

AIFieldsSchema(cfg) ==
    [i \in 1..Len(cfg.ai_inferred_fields) |-> SchemaLine(cfg.ai_inferred_fields[i])]

\* lines 198-202
RECURSIVE CategoriesText(_)
CategoriesText(categories) ==
    IF Len(categories) = 0 THEN <<>>
    ELSE <<"", "### " \o categories[1].name \o " (id: \"" \o categories[1].id \o "\")">>
         \o (IF categories[1].guidance # ""
             THEN <<"Evaluation criteria:", categories[1].guidance>>
             ELSE <<>>)
         \o CategoriesText(Tail(categories))

\* line 260
AssessmentLines(cfg) ==
    IF Len(cfg.categories) = 0 THEN <<"">>
    ELSE [i \in 1..Len(cfg.categories) |->
            "    \"" \o cfg.categories[i].id \o "\": \"Your 2-4 sentence assessment paragraph...\","]

Preamble ==
    <<"You are a fair but thorough accessibility auditor ...",
      "",
      "IMPORTANT RATING PHILOSOPHY:",
      "- Be accurate and evidence-based. ...",
      "- Give credit where due ...",
      "- But also be honest about real problems ...",
      "- Do NOT speculate about contrast ratios ...",
      "- Do NOT flag subtle, low-opacity background design elements ...",
      "- Do NOT flag the absence of photographs as a negative. ...",
      "- DO flag these real accessibility issues when present:",
      "  * Text that is too small ...",
      "  * Dense, information-heavy layouts ...",
      "  * Email addresses, phone numbers, or contact info ...",
      "  * Signs that require multiple read-throughs ...",
      "  * Poor visual hierarchy ...",
      "  * Insufficient whitespace ...",
      "- \"Fully Accessible\" should be reserved ...",
      "- \"Mostly Accessible\" is appropriate ...",
      "- \"Partially Accessible\" is appropriate ...",
      "- \"Mostly Inaccessible\" or \"Fully Inaccessible\" should be reserved ...",
      "- The overall rating should honestly reflect ...">>

Guidelines ==
    <<"Analyze the attached photo of a digital sign ...",
      "",
      "For each category, write a 2-4 sentence assessment paragraph that:",
      "- Describes what you observe ...",
      "- Identifies genuine accessibility concerns ...",
      "- Also acknowledges things done well ...",
      "- Distinguishes between real accessibility barriers and minor design preferences",
      "",
      "Important assessment guidelines:",
      "- For **Contrast and Color Blindness**: ...",
      "- For **Text Readability**: ...",
      "- For **Image Clarity**: ...",
      "- For **Interactive Display**: ...",
      "- If the sign appears to be **off, blank, or not displaying content**, ...",
      "",
      "Also determine the following from the image:">>

build_assessment_prompt(cfg, metadata) ==
    Preamble
    \o MetadataContext(metadata)
    \o Guidelines
    \o AIFieldsInstructions(cfg)
    \o <<"- Any visible building or location identifiers",
         "- Any other relevant contextual details",
         "",
         "Based on your assessment, suggest an overall accessibility rating ... Must be one of: "
             \o Join(", ", Quoted(cfg.overall_rating.options)),
         "",
         "Return your response as valid JSON matching this exact schema. Do NOT wrap it in markdown code fences.",
         "",
         "{",
         "  \"inferred_metadata\": {">>
    \o AIFieldsSchema(cfg)
    \o <<"    \"building\": \"building name if visible, or null\",",
         "    \"additional_context\": \"any other observations\"",
         "  },",
         "  \"assessments\": {">>
    \o AssessmentLines(cfg)
    \o <<"  },",
         "  \"accessibility_rating\": \"one of: " \o Join(", ", cfg.overall_rating.options) \o "\",",
         "  \"final_comments\": \"Any additional accessibility observations not covered by the categories above\",",
         "  \"overall_notes\": \"Extra context about the sign environment, placement, or other relevant details\"",
         "}",
         "",
         "Categories to evaluate:">>
    \o CategoriesText(cfg.categories)
    \o <<"">>

(***************************************************************************)
(* The request handlers.  A request record holds the posted JSON body, the *)
(* environment variables the handler reads (TRUE = set and non-empty),     *)
(* whether config/questions.json can be loaded, the one external call that *)
(* fails in this request (or "none"), the model's reply and the clock.     *)
(* An outcome record holds everything the handler leaves behind.           *)
(***************************************************************************)
NoResult == [t |-> "none", s |-> <<>>, m |-> <<>>]

SideEffectCalls ==
    {"model.messages.create", "drive.files.create", "drive.permissions.create",
     "sheet.update", "sheet.append_row"}

ExternalCalls == SideEffectCalls \cup {"sheets.open_by_key", "sheet.cell"}

ImageLink == "https://drive.google.com/file/d/1/view"

Outcome(status, error, made, sh, headers, r, appended) ==
    [response |-> [status |-> status, error |-> error], calls |-> made, sheet |-> sh,
     hdr |-> headers, row |-> r, appended |-> appended,
     text |-> <<>>, result |-> NoResult, prompt |-> <<>>]

\* lines 305-341: the two Drive calls; ok = FALSE when one of them raises
upload_to_drive(req, made) ==
    IF req.fail = "drive.files.create"
    THEN [ok |-> FALSE, calls |-> Append(made, "drive.files.create"), link |-> ""]
    ELSE IF req.fail = "drive.permissions.create"
    THEN [ok |-> FALSE, calls |-> made \o <<"drive.files.create", "drive.permissions.create">>,
          link |-> ""]
    ELSE [ok |-> TRUE, calls |-> made \o <<"drive.files.create", "drive.permissions.create">>,
          link |-> ImageLink]

\* lines 344-412
append_to_sheet(req, cfg, sh, image_link, made) ==
    LET c1 == Append(made, "sheets.open_by_key")
    IN  IF req.fail = "sheets.open_by_key"
        THEN Outcome(500, "UpstreamError", c1, sh, <<>>, <<>>, FALSE)
        ELSE IF ~req.config_ok
        THEN Outcome(500, "ConfigError", c1, sh, <<>>, <<>>, FALSE)
        ELSE
        LET headers == build_header_row(cfg)
            c2 == Append(c1, "sheet.cell")
            first_cell == IF req.fail = "sheet.cell" THEN PyNone ELSE SheetCell11(sh)
            write == first_cell # "Timestamp"
            c3 == IF write THEN Append(c2, "sheet.update") ELSE c2
        IN  IF write /\ req.fail = "sheet.update"
            THEN Outcome(500, "UpstreamError", c3, sh, headers, <<>>, FALSE)
            ELSE
            LET sh1 == IF write THEN SheetUpdateA1(sh, headers) ELSE sh
                r == BuildRow(cfg, req.now, req, image_link)
                c4 == Append(c3, "sheet.append_row")
            IN  IF req.fail = "sheet.append_row"
                THEN Outcome(500, "UpstreamError", c4, sh1, headers, r, FALSE)
                ELSE Outcome(200, "ok", c4, SheetAppendRow(sh1, r), headers, r, TRUE)

\* lines 130-171
submit(req, cfg, sh) ==
    IF ~req.has_data
    THEN Outcome(400, "InputError", <<>>, sh, <<>>, <<>>, FALSE)
    ELSE IF ~req.env.GOOGLE_SHEET_ID
    THEN Outcome(500, "CredentialError", <<>>, sh, <<>>, <<>>, FALSE)
    ELSE IF ~req.env.GOOGLE_SHEETS_CREDS
    THEN Outcome(500, "CredentialError", <<>>, sh, <<>>, <<>>, FALSE)
    ELSE IF req.image # "" /\ req.env.GOOGLE_DRIVE_FOLDER_ID
    THEN LET up == upload_to_drive(req, <<>>)
         IN  IF up.ok
             THEN append_to_sheet(req, cfg, sh, up.link, up.calls)
             ELSE Outcome(500, "UpstreamError", up.calls, sh, <<>>, <<>>, FALSE)
    ELSE append_to_sheet(req, cfg, sh, "", <<>>)

\* lines 69-127
assess(req, cfg, sh) ==
    LET rejected(status, error) == Outcome(status, error, <<>>, sh, <<>>, <<>>, FALSE)
    IN  IF ~req.has_data THEN rejected(400, "InputError")
        ELSE IF req.image = "" THEN rejected(400, "InputError")
        ELSE IF ~req.env.ANTHROPIC_API_KEY THEN rejected(500, "CredentialError")
        ELSE IF ~req.config_ok THEN rejected(500, "ConfigError")
        ELSE LET p == build_assessment_prompt(cfg, req.metadata)
                 made == <<"model.messages.create">>
             IN  IF req.fail = "model.messages.create"
                 THEN [Outcome(500, "UpstreamError", made, sh, <<>>, <<>>, FALSE)
                          EXCEPT !.prompt = p]
                 ELSE [Outcome(200, "ok", made, sh, <<>>, <<>>, FALSE)
                          EXCEPT !.prompt = p, !.text = req.reply,
                                 !.result = parse_json_response(req.reply)]

(***************************************************************************)
(* The inputs the requests are drawn from.                                 *)
(***************************************************************************)
MetadataInputs ==
    { <<>>,
      << <<"building", "Main Hall">>, <<"building_floor", "Other">>,
         <<"building_floor_other", "Mezzanine">> >>,
      << <<"building_floor", "Other">>, <<"building_floor_other", "">> >>,
      << <<"building_floor", "Other">> >>,
      << <<"building_floor", "2">>, <<"building_floor_other", "Mezzanine">> >>,
      << <<"building", "Other">>, <<"building_other", "Annex">>, <<"assessor_name", "Ann">> >> }

AssessmentInputs ==
    { <<>>,
      << <<"contrast", "A">>, <<"readability", "B">> >>,
      << <<"readability", "B">>, <<"contrast", "A">> >>,
      << <<"readability", "B">> >> }

InferredInputs ==
    { <<>>,
      << <<"sign_type", "Digital">>, <<"building", "Main Hall">>,
         <<"additional_context", "glare">> >>,
      << <<"orientation", "Portrait">>, <<"additional_context", "">> >> }

MetadataInputs_Mezzanine ==
    << <<"building", "Main Hall">>, <<"building_floor", "Other">>,
       <<"building_floor_other", "Mezzanine">> >>

AssessmentInputs_AB == << <<"contrast", "A">>, <<"readability", "B">> >>

InferredInputs_Digital ==
    << <<"sign_type", "Digital">>, <<"building", "Main Hall">>,
       <<"additional_context", "glare">> >>

Env(api_key, sheet_id, folder_id, creds) ==
    [ANTHROPIC_API_KEY |-> api_key, GOOGLE_SHEET_ID |-> sheet_id,
     GOOGLE_DRIVE_FOLDER_ID |-> folder_id, GOOGLE_SHEETS_CREDS |-> creds]

FullEnv == Env(TRUE, TRUE, TRUE, TRUE)

Envs == { Env(k, s, f, c) : k \in BOOLEAN, s \in BOOLEAN, f \in BOOLEAN, c \in BOOLEAN }

Req(has_data, image, m, a, i, env, config_ok, fail, reply) ==
    [has_data |-> has_data, image |-> image, metadata |-> m, assessments |-> a,
     inferred_metadata |-> i, accessibility_rating |-> "Partially Accessible",
     final_comments |-> "Small print", assessor_comments |-> "Checked on site",
     overall_notes |-> "Lobby", env |-> env, config_ok |-> config_ok, fail |-> fail,
     reply |-> reply, now |-> "2026-01-01 00:00:00 UTC"]

NoRequest == Req(FALSE, "", <<>>, <<>>, <<>>, FullEnv, TRUE, "none", <<>>)

(***************************************************************************)
(* Actions.                                                                *)
(***************************************************************************)
\* a handler ran on request req and left outcome o
Handled(name, req, o) ==
    /\ op' = name
    /\ request' = req
    /\ response' = o.response
    /\ calls' = o.calls
    /\ sheet' = o.sheet
    /\ hdr' = o.hdr
    /\ row' = o.row
    /\ layouts' = IF o.appended THEN Append(layouts, o.hdr) ELSE layouts
    /\ text' = o.text
    /\ result' = o.result
    /\ prompt' = o.prompt
    /\ UNCHANGED <<config, edits>>

\* POST /api/submit with a request of reqs
Submit(reqs) ==
    /\ Len(layouts) < MaxRows
    /\ \E req \in reqs : Handled("submit", req, submit(req, config, sheet))

\* POST /api/assess with a request of reqs
Assess(reqs) ==
    \E req \in reqs : Handled("assess", req, assess(req, config, sheet))

\* one submission on a worksheet nobody has used yet
SubmitOnce(reqs) ==
    /\ op = "init"
    /\ \E req \in reqs : Handled("submit", req, submit(req, config, sheet))

\* one assessment
AssessOnce(reqs) ==
    /\ op = "init"
    /\ Assess(reqs)

\* config/questions.json is edited between requests; load_config reads it anew each time
ListNames == {"metadata_fields", "ai_inferred_fields", "categories"}

Pool(list) ==
    CASE list = "metadata_fields" -> MetadataPool
      [] list = "ai_inferred_fields" -> AIPool
      [] list = "categories" -> CategoryPool

InsertAt(s, k, x) == SubSeq(s, 1, k) \o <<x>> \o SubSeq(s, k + 1, Len(s))

RemoveAt(s, k) == SubSeq(s, 1, k - 1) \o SubSeq(s, k + 1, Len(s))

SwapAt(s, k) == [i \in 1..Len(s) |-> IF i = k THEN s[k + 1] ELSE IF i = k + 1 THEN s[k] ELSE s[i]]

Edited(cfg) ==
    /\ edits < MaxEdits
    /\ config' = cfg
    /\ edits' = edits + 1
    /\ op' = "edit"
    /\ UNCHANGED <<sheet, layouts, request, response, calls, hdr, row, text, result, prompt>>

AddField ==
    \E list \in ListNames :
        /\ Len(config[list]) < MaxFields
        /\ \E f \in Pool(list) \ Range(config[list]), k \in 0..Len(config[list]) :
               Edited([config EXCEPT ![list] = InsertAt(@, k, f)])

RemoveField ==
    \E list \in ListNames, k \in 1..MaxFields :
        /\ k <= Len(config[list])
        /\ Edited([config EXCEPT ![list] = RemoveAt(@, k)])

ReorderFields ==
    \E list \in ListNames, k \in 1..MaxFields :
        /\ k + 1 <= Len(config[list])
        /\ Edited([config EXCEPT ![list] = SwapAt(@, k)])

(***************************************************************************)
(* Spec: submissions interleaved with schema edits, on one worksheet.      *)
(***************************************************************************)
InitWith(cfgs, sheets) ==
    /\ config \in cfgs
    /\ sheet \in sheets
    /\ layouts = <<>>
    /\ edits = 0
    /\ op = "init"
    /\ request = NoRequest
    /\ response = [status |-> 0, error |-> "none"]
    /\ calls = <<>>
    /\ hdr = <<>>
    /\ row = <<>>
    /\ text = <<>>
    /\ result = NoResult
    /\ prompt = <<>>

Field(pool, id) == CHOOSE f \in pool : f.id = id

StartSchema ==
    Schema(<<Field(MetadataPool, "building")>>, <<Field(AIPool, "sign_type")>>,
           <<Field(CategoryPool, "contrast")>>)

\* a worksheet nobody has submitted to: empty, or holding a foreign first row
FreshSheets == { <<>>, << <<"Version1">> >> }

SheetFailures == {"none", "sheet.cell", "sheet.update", "sheet.append_row"}

SheetRequests ==
    { Req(TRUE, im[1], im[2], AssessmentInputs_AB, InferredInputs_Digital, FullEnv, TRUE, f, <<>>) :
        im \in { <<"", MetadataInputs_Mezzanine>>, <<"aW1hZ2U=", <<>> >> }, f \in SheetFailures }

Init == InitWith({StartSchema}, FreshSheets)

Next == Submit(SheetRequests) \/ AddField \/ RemoveField \/ ReorderFields

Spec == Init /\ [][Next]_vars

(***************************************************************************)
(* Claims about the worksheet (checked under Spec).                        *)
(***************************************************************************)
\* data row k of the sheet (row k + 1 of the worksheet)
DataRow(k) == sheet[k + 1]

\* C1: every persisted data row has as many columns as the persisted row 1, and each of
\* its cells was projected from the field the persisted header names at that column
\* (layouts[k] is the header of the schema the row was projected from).
C1_RowsAlignedWithHeader ==
    \A k \in 1..Len(layouts) :
        /\ Len(DataRow(k)) = Len(sheet[1])
        /\ \A i \in 1..Len(DataRow(k)) : layouts[k][i] = sheet[1][i]

\* the header write precedes the row append in the calls of a request
UpdateBeforeAppend(made) ==
    \A i, j \in 1..Len(made) :
        (made[i] = "sheet.update" /\ made[j] = "sheet.append_row") => i < j

\* C2: in a submission that reaches the header check, a persisted first cell other than
\* "Timestamp" makes row 1 the freshly computed header, written before the row is
\* appended; a persisted first cell equal to "Timestamp" leaves row 1 unchanged.
C2_HeaderReconciled ==
    [][ (op' = "submit" /\ response'.error = "ok") =>
            IF SheetCell11(sheet) # "Timestamp"
            THEN /\ sheet'[1] = build_header_row(config)
                 /\ "sheet.update" \in Range(calls')
                 /\ UpdateBeforeAppend(calls')
            ELSE sheet'[1] = sheet[1] ]_vars

(***************************************************************************)
(* SpecRow: one submission, for every schema and every payload.            *)
(***************************************************************************)
Images == {"", "aW1hZ2U="}

RowRequests ==
    { Req(TRUE, im, m, a, i, FullEnv, TRUE, "none", <<>>) :
        im \in Images, m \in MetadataInputs, a \in AssessmentInputs, i \in InferredInputs }

InitRow == InitWith(Schemas, {<<>>})

NextRow == SubmitOnce(RowRequests)

SpecRow == InitRow /\ [][NextRow]_vars

Submitted == op = "submit" /\ response.error = "ok"

\* C6: the header built by build_header_row and the data row built by append_to_sheet
\* have the same length, whatever the schema and the payload.
C6_HeaderAndRowSameLength ==
    Submitted => Len(hdr) = Len(row)

\* C6 is exercised on the empty schema and on a schema with every list at its longest
C6_Witness ==
    /\ Submitted
    /\ Len(config.metadata_fields) = MaxFields
    /\ Len(config.ai_inferred_fields) = 0
    /\ Len(config.categories) = MaxFields
    /\ Len(row) = 7 + 2 * MaxFields
    /\ Len(hdr) = Len(row)

\* C7: for every category c of the schema, the data row holds assessments[c.id] (the
\* empty string when absent) at exactly the column where the header holds c's display
\* name, and these columns follow the schema's order.
C7_CategoryCellsUnderTheirNames ==
    Submitted =>
        /\ \A k \in 1..Len(config.categories) :
               /\ \E i \in 1..Len(hdr) : hdr[i] = config.categories[k].name
               /\ \A i \in 1..Len(hdr) :
                      hdr[i] = config.categories[k].name =>
                          /\ i <= Len(row)
                          /\ row[i] = IF \E e \in Range(request.assessments) :
                                            e[1] = config.categories[k].id
                                      THEN (CHOOSE e \in Range(request.assessments) :
                                                e[1] = config.categories[k].id)[2]
                                      ELSE ""
        /\ \A k \in 1..(Len(config.categories) - 1) : \A i, j \in 1..Len(hdr) :
               (hdr[i] = config.categories[k].name /\ hdr[j] = config.categories[k + 1].name)
                   => i < j

\* categories [contrast, readability] with assessments given in the other order
C7_Witness ==
    /\ Submitted
    /\ Len(config.categories) = 2
    /\ config.categories[1].id = "contrast"
    /\ config.categories[2].id = "readability"
    /\ request.assessments = << <<"readability", "B">>, <<"contrast", "A">> >>
    /\ \E i \in 1..(Len(hdr) - 1) :
           /\ hdr[i] = "Contrast and Color Blindness" /\ row[i] = "A"
           /\ hdr[i + 1] = "Text Readability" /\ row[i + 1] = "B"

\* C8: the cell of metadata field k (column k + 1) is the submitted value of its id,
\* except that the value "Other" with a present, non-empty "<id>_other" value gives
\* "Other: <that value>".
C8_MetadataCells ==
    Submitted =>
        \A k \in 1..Len(config.metadata_fields) :
            LET id == config.metadata_fields[k].id
                paired == id \o "_other"
                has(key) == \E e \in Range(request.metadata) : e[1] = key
                val(key) == (CHOOSE e \in Range(request.metadata) : e[1] = key)[2]
            IN  row[k + 1] =
                    IF has(id)
                    THEN IF val(id) = "Other" /\ has(paired) /\ val(paired) # ""
                         THEN "Other: " \o val(paired)
                         ELSE val(id)
                    ELSE ""

C8_Witness ==
    /\ Submitted
    /\ request.metadata = MetadataInputs_Mezzanine
    /\ \E k \in 1..Len(config.metadata_fields) :
           /\ config.metadata_fields[k].id = "building_floor"
           /\ row[k + 1] = "Other: Mezzanine"

\* the label the claim gives metadata field f: the override of a known id, else its own
ClaimedMetadataLabel(f) ==
    CASE f.id = "assessor_name" -> "Assessor Name"
      [] f.id = "assessor_email" -> "Email"
      [] f.id = "building" -> "Building"
      [] f.id = "screen_location" -> "Screen Location"
      [] f.id = "reviewed_on" -> "Date Reviewed"
      [] f.id = "floor_owner" -> "Floor Owner"
      [] OTHER -> f.label

\* the columns the claim puts before the comment/notes columns
ClaimedLeadingColumns ==
    <<"Timestamp">>
    \o [i \in 1..Len(config.metadata_fields) |-> ClaimedMetadataLabel(config.metadata_fields[i])]
    \o [i \in 1..Len(config.ai_inferred_fields) |-> config.ai_inferred_fields[i].label]
    \o <<"Image Link">>
    \o [i \in 1..Len(config.categories) |-> config.categories[i].name]
    \o <<"Accessibility Rating">>

\* C10 (as amended): the header is Timestamp, the metadata labels, the AI-inferred
\* labels, Image Link, the category names, Accessibility Rating, then always
\* AI Additional Comments, Assessor Comments, Overall Notes, and last AI Additional Context.
C10_HeaderSequence ==
    Submitted =>
        hdr = ClaimedLeadingColumns
              \o <<"AI Additional Comments", "Assessor Comments", "Overall Notes">>
              \o <<"AI Additional Context">>

C10_Witness ==
    /\ Submitted
    /\ Len(config.metadata_fields) = 2
    /\ config.metadata_fields[1].id = "building_floor"
    /\ config.metadata_fields[2].id = "building"
    /\ Len(config.ai_inferred_fields) = 1
    /\ Len(config.categories) = 1
    /\ hdr[2] = "Floor"
    /\ hdr[3] = "Building"
    /\ hdr[Len(hdr)] = "AI Additional Context"

\* C10 (as stated): the comment/notes columns are Final Comments and Overall Notes,
\* with Assessor Comments among them when human comments are enabled.
C10_AsStated ==
    Submitted =>
        \E comments \in { <<"Final Comments", "Overall Notes">>,
                          <<"Final Comments", "Assessor Comments", "Overall Notes">>,
                          <<"Final Comments", "Overall Notes", "Assessor Comments">>,
                          <<"Assessor Comments", "Final Comments", "Overall Notes">> } :
            hdr = ClaimedLeadingColumns \o comments \o <<"AI Additional Context">>

(***************************************************************************)
(* SpecReq: one request, for every environment and every failing call.     *)
(***************************************************************************)
Replies ==
    { <<LB, RB>>,
      <<"1">>,
      <<BT, BT, BT, "j", "s", "o", "n", NL, LB, DQ, "a", DQ, ":", DQ, "b", DQ, RB, NL, BT, BT, BT>> }

Failures == ExternalCalls \cup {"none"}

SubmitRequests ==
    { Req(d, im, MetadataInputs_Mezzanine, AssessmentInputs_AB, InferredInputs_Digital,
          env, c, f, <<>>) :
        d \in BOOLEAN, im \in Images, env \in Envs, c \in BOOLEAN, f \in Failures }

AssessRequests ==
    { Req(d, im, MetadataInputs_Mezzanine, <<>>, <<>>, env, c, f, reply) :
        d \in BOOLEAN, im \in Images, env \in Envs, c \in BOOLEAN,
        f \in {"none", "model.messages.create"}, reply \in Replies }

InitReq == InitWith({StartSchema}, FreshSheets \cup {<<build_header_row(StartSchema)>>})

NextReq == SubmitOnce(SubmitRequests) \/ AssessOnce(AssessRequests)

SpecReq == InitReq /\ [][NextReq]_vars

\* C3: a request rejected with ConfigError, InputError or CredentialError has made no
\* model call, no image upload, no header write and no row append.
C3_NoSideEffectWhenRejected ==
    response.error \in {"ConfigError", "InputError", "CredentialError"} =>
        \A i \in 1..Len(calls) : calls[i] \notin SideEffectCalls

(***************************************************************************)
(* SpecParse: parse_json_response applied to one raw text.  The texts are  *)
(* built from JSON values written out by Dumps, so that what the function  *)
(* returns can be compared with the value the text was written from.       *)
(***************************************************************************)
RECURSIVE Dumps(_, _), DumpMembers(_, _)
\* the text of JSON value v, sp the whitespace put after every ":" and ","
Dumps(v, sp) ==
    IF v.t = "str" THEN <<DQ>> \o v.s \o <<DQ>>
    ELSE IF v.t = "num" THEN v.s
    ELSE <<LB>> \o DumpMembers(v.m, sp) \o <<RB>>

DumpMembers(m, sp) ==
    IF Len(m) = 0 THEN <<>>
    ELSE <<DQ>> \o m[1][1] \o <<DQ, ":">> \o sp \o Dumps(m[1][2], sp)
         \o (IF Len(m) > 1 THEN <<",">> \o sp \o DumpMembers(Tail(m), sp) ELSE <<>>)

Fence == <<BT, BT, BT>>

Objects ==
    { JObj(<<>>),
      JObj(<< <<<<"a">>, JStr(<<"b">>)>> >>),
      JObj(<< <<<<"a">>, JObj(<< <<<<"b">>, JNum(<<"1">>)>> >>)>>, <<<<"c">>, JStr(<<>>)>> >>),
      JObj(<< <<<<"a">>, JStr(<<RB>>)>> >>),
      JObj(<< <<<<"a">>, JStr(<<LB>>)>> >>),
      JObj(<< <<<<"a">>, JStr(<<LB, RB>>)>> >>),
      JObj(<< <<<<"a">>, JStr(<<RB, LB>>)>> >>),
      JObj(<< <<<<"a">>, JObj(<< <<<<"b">>, JStr(<<RB>>)>> >>)>> >>),
      JObj(<< <<<<"a">>, JStr(<<LB>>)>>, <<<<"b">>, JStr(<<RB>>)>> >>),
      JObj(<< <<<<"a">>, JStr(<<"x", BT, BT, BT>>)>> >>),
      JObj(<< <<<<"accessibility_rating">>, JStr(<<"Partially Accessible">>)>>,
              <<<<"assessments">>, JObj(<<>>)>>,
              <<<<"inferred_metadata">>, JObj(<<>>)>> >>) }

Separators == { <<>>, <<SP>> }

Leads == { <<>>, <<"Here you go:", NL>>, <<"a", LB, "b", RB, NL>>, <<BT, "a", BT, SP>> }

Trails == { <<>>, <<NL, "Thanks!">>, <<NL, RB, "x", LB>>, <<SP, DQ, "1">> }

FenceOpenings == { Fence, Fence \o <<"j", "s", "o", "n">> }

FencedInputs ==
    { [kind |-> "fenced", obj |-> o, body |-> Dumps(o, sp),
       text |-> lead \o open \o ws1 \o Dumps(o, sp) \o ws2 \o Fence \o trail] :
        lead \in Leads, open \in FenceOpenings, ws1 \in { <<>>, <<NL>>, <<SP, NL>> },
        o \in Objects, sp \in Separators, ws2 \in { <<>>, <<NL>>, <<NL, NL>> },
        trail \in Trails }

\* an object followed by prose, with no fence
BareInputs ==
    { [kind |-> "bare", obj |-> o, body |-> Dumps(o, sp), text |-> Dumps(o, sp) \o trail] :
        o \in Objects, sp \in Separators, trail \in Trails }

\* the text of an object cut short, bare or inside a fence
TruncatedInputs ==
    UNION { { [kind |-> "truncated", obj |-> o, body |-> SubSeq(Dumps(o, <<>>), 1, n),
               text |-> open \o SubSeq(Dumps(o, <<>>), 1, n) \o close] :
                n \in 0..(Len(Dumps(o, <<>>)) - 1),
                open \in { <<>>, Fence \o <<"j", "s", "o", "n", NL>> },
                close \in { <<>>, <<NL>> \o Fence } } : o \in Objects }

SmallAlphabet == {LB, RB, DQ, ":", "1", "a", SP}

\* every text of at most MaxTextLen characters of SmallAlphabet, and some prose
PlainInputs ==
    { [kind |-> "plain", obj |-> NoResult, body |-> t, text |-> t] :
        t \in UNION { [1..n -> SmallAlphabet] : n \in 0..MaxTextLen }
              \cup { <<"Sorry, I cannot assess this image.">>, <<NL>>, <<"1", "1", NL>>,
                     Fence \o <<"1">> \o Fence } }

ParseInputs == FencedInputs \cup BareInputs \cup TruncatedInputs \cup PlainInputs

InitParse ==
    /\ request \in ParseInputs
    /\ text = request.text
    /\ result = NoResult
    /\ op = "init"
    /\ config = StartSchema
    /\ sheet = <<>>
    /\ layouts = <<>>
    /\ edits = 0
    /\ response = [status |-> 0, error |-> "none"]
    /\ calls = <<>>
    /\ hdr = <<>>
    /\ row = <<>>
    /\ prompt = <<>>

Parse ==
    /\ op = "init"
    /\ result' = parse_json_response(text)
    /\ op' = "parse"
    /\ UNCHANGED <<config, sheet, layouts, edits, request, response, calls, hdr, row, text, prompt>>

NextParse == Parse

SpecParse == InitParse /\ [][NextParse]_vars

\* the degraded result: empty inferred_metadata and assessments, the diagnostic in overall_notes
IsDegraded(r) ==
    /\ r.t = "obj"
    /\ Len(r.m) = 3
    /\ r.m[1] = <<KeyInferredMetadata, JObj(<<>>)>>
    /\ r.m[2] = <<KeyAssessments, JObj(<<>>)>>
    /\ r.m[3][1] = KeyOverallNotes
    /\ r.m[3][2].t = "str"
    /\ Len(r.m[3][2].s) >= 1
    /\ r.m[3][2].s[1] = DiagPrefix

HasNoBrace(t) == \A i \in 1..Len(t) : t[i] # LB

\* C4: a truncated JSON text, a text with no opening brace and the empty text all give
\* the degraded result.
C4_MalformedGivesDegraded ==
    (op = "parse" /\ (request.kind = "truncated" \/ HasNoBrace(text) \/ text = <<>>))
        => IsDegraded(result)

\* the running brace depth after the first i characters of b, braces in strings counted
Depth(b, i) ==
    Cardinality({ k \in 1..i : b[k] = LB }) - Cardinality({ k \in 1..i : b[k] = RB })

\* the depth of b does not return to zero before its last character, and b holds no fence
ScanReachesEnd(b) ==
    /\ \A i \in 1..(Len(b) - 1) : Depth(b, i) # 0
    /\ \A p \in 1..Len(b) : ~(p + 2 <= Len(b) /\ b[p] = BT /\ b[p + 1] = BT /\ b[p + 2] = BT)

\* C5 (as amended): prose, one fenced block holding a valid JSON object, prose: when the
\* object's text holds no triple backtick and its running brace depth (braces inside
\* strings counted) does not return to zero before its closing brace, the result is
\* exactly that object.
C5_FencedObjectReturned ==
    (op = "parse" /\ request.kind = "fenced" /\ ScanReachesEnd(request.body))
        => result = request.obj

\* the example of the spec: prose, a tagged block, prose
C5_Witness ==
    /\ op = "parse"
    /\ text = <<"Here you go:", NL>> \o Fence \o <<"j", "s", "o", "n", NL>>
              \o <<LB, DQ, "accessibility_rating", DQ, ":", DQ, "Partially Accessible", DQ, ",",
                   DQ, "assessments", DQ, ":", LB, RB, ",",
                   DQ, "inferred_metadata", DQ, ":", LB, RB, RB>>
              \o <<NL>> \o Fence \o <<NL, "Thanks!">>
    /\ result.t = "obj"
    /\ Len(result.m) = 3
    /\ result.m[1] = << <<"accessibility_rating">>, JStr(<<"Partially Accessible">>) >>

\* C5 (as stated): every valid JSON object in one fenced block is returned as parsed.
C5_AsStated ==
    (op = "parse" /\ request.kind = "fenced") => result = request.obj

\* the first opening brace of t
FirstBrace(t) == CHOOSE s \in 1..Len(t) : t[s] = LB /\ \A k \in 1..(s - 1) : t[k] # LB

\* the running depth of t over positions s..e, braces in strings counted
DepthOver(t, s, e) ==
    Cardinality({ k \in s..e : t[k] = LB }) - Cardinality({ k \in s..e : t[k] = RB })

\* the positions from the first opening brace on at which the running depth is zero
ZeroPoints(t) ==
    IF HasNoBrace(t) THEN {}
    ELSE { e \in FirstBrace(t)..Len(t) : DepthOver(t, FirstBrace(t), e) = 0 }

FirstZero(t) == CHOOSE e \in ZeroPoints(t) : \A x \in ZeroPoints(t) : e <= x

\* the substring the claim names: first opening brace to the first return to depth zero,
\* and the whole text when there is no opening brace or the depth never returns to zero
ClaimedCandidate(t) ==
    IF ZeroPoints(t) = {} THEN t ELSE SubSeq(t, FirstBrace(t), FirstZero(t))

\* what json.loads and the except branch make of candidate c
ResultOf(c) == IF json_loads(c).ok THEN json_loads(c).v ELSE Fallback(c)

\* the text is the text of one valid JSON object and nothing else
OnlyObject == request.kind = "bare" /\ text = request.body

\* position p of b lies inside a quoted string
InString(b, p) == Cardinality({ k \in 1..(p - 1) : b[k] = DQ }) % 2 = 1

\* the closing braces of b inside a string that no opening brace of that string matches
UnbalancedInString(b) ==
    { p \in 1..Len(b) :
        /\ b[p] = RB
        /\ InString(b, p)
        /\ LET q == CHOOSE k \in 1..(p - 1) :
                        b[k] = DQ /\ \A j \in (k + 1)..(p - 1) : b[j] # DQ
           IN  DepthOver(b, q, p) < 0 }

\* C11 (as amended): the candidate handed to json.loads runs from the first opening brace
\* of the fence-stripped text to the first later position where the running depth returns
\* to zero, everything after it discarded (the whole text when the depth never returns to
\* zero); braces inside strings are counted, so a text that is exactly one valid JSON
\* object is cut at the first closing brace, in a string or not, that brings the depth to
\* zero: when that brace comes before the object's last character the result is the
\* degraded one with the cut text in its diagnostic, otherwise the object is returned.
C11_CandidateCutAtDepthZero ==
    op = "parse" =>
        /\ result = ResultOf(ClaimedCandidate(StripFence(text)))
        /\ (OnlyObject /\ ZeroPoints(text) # {} /\ FirstZero(text) < Len(text)) =>
               /\ IsDegraded(result)
               /\ result.m[3][2].s = <<DiagPrefix>> \o SubSeq(text, 1, FirstZero(text))
        /\ (OnlyObject /\ (ZeroPoints(text) = {} \/ FirstZero(text) = Len(text))) =>
               result = request.obj

\* the object {"a":"}"} alone is cut at the brace inside the string
C11_Witness ==
    /\ op = "parse"
    /\ text = <<LB, DQ, "a", DQ, ":", DQ, RB, DQ, RB>>
    /\ IsDegraded(result)
    /\ result.m[3][2].s = <<DiagPrefix, LB, DQ, "a", DQ, ":", DQ, RB>>

\* C11 (as stated): a text that is exactly one valid JSON object with an unbalanced
\* closing brace inside a string value is cut at that brace and gives the degraded result.
C11_AsStated ==
    (op = "parse" /\ OnlyObject /\ UnbalancedInString(text) # {}) =>
        \E p \in UnbalancedInString(text) : result = Fallback(SubSeq(text, 1, p))

(***************************************************************************)
(* SpecPrompt: build_assessment_prompt for every schema and metadata.      *)
(***************************************************************************)
PromptRequests ==
    { Req(TRUE, "aW1hZ2U=", m, <<>>, <<>>, FullEnv, TRUE, "none", <<>>) : m \in MetadataInputs }

InitPrompt ==
    /\ InitWith(Schemas, {<<>>})

BuildPrompt ==
    /\ op = "init"
    /\ \E req \in PromptRequests :
           /\ request' = req
           /\ prompt' = build_assessment_prompt(config, req.metadata)
    /\ op' = "prompt"
    /\ UNCHANGED <<config, sheet, layouts, edits, response, calls, hdr, row, text, result>>

NextPrompt == BuildPrompt

SpecPrompt == InitPrompt /\ [][NextPrompt]_vars

\* the JSON-skeleton line the claim gives AI-inferred field f
ClaimedSkeletonLine(f) ==
    "    \"" \o f.id \o "\": \"one of: " \o Join(", ", f.options) \o "\","

\* C9: the prompt holds exactly one JSON-skeleton line per AI-inferred field, and these
\* lines stand in the schema's order (directly after the line opening inferred_metadata
\* and directly before the building placeholder).
C9_OneSkeletonLinePerField ==
    op = "prompt" =>
        LET fields == config.ai_inferred_fields
            at(f) == { i \in 1..Len(prompt) : prompt[i] = ClaimedSkeletonLine(f) }
        IN  /\ \A k \in 1..Len(fields) : Cardinality(at(fields[k])) = 1
            /\ \A k \in 1..(Len(fields) - 1) :
                   \A i \in at(fields[k]), j \in at(fields[k + 1]) : j = i + 1
            /\ \E s \in 1..Len(prompt) :
                   /\ prompt[s] = "  \"inferred_metadata\": {"
                   /\ \A k \in 1..Len(fields) : (s + k) \in at(fields[k])
                   /\ prompt[s + Len(fields) + 1] = "    \"building\": \"building name if visible, or null\","

C9_Witness ==
    /\ op = "prompt"
    /\ request.metadata = MetadataInputs_Mezzanine
    /\ Len(config.ai_inferred_fields) = 2
    /\ config.ai_inferred_fields[1].id = "orientation"
    /\ config.ai_inferred_fields[2].id = "sign_type"
    /\ \E i \in 1..(Len(prompt) - 1) :
           /\ prompt[i] = "    \"orientation\": \"one of: Portrait\","
           /\ prompt[i + 1] = "    \"sign_type\": \"one of: Digital, Static\","

====
